---- MODULE Spec2Model ----
(***************************************************************************)
(* Model of giantswarm/capi-migration-controller:                          *)
(*   - controllers.ClusterReconciler (Reconcile, reconcile, reconcileDelete)*)
(*   - migration.azureMigrator (read* and create* steps, derivation helpers)*)
(***************************************************************************)
EXTENDS Integers, Sequences, FiniteSets, TLC

(***************************************************************************)
(* Bounds                                                                  *)
(***************************************************************************)
MaxLoops == 3
MaxHostLen == 7
MaxCalls == 2
MaxItems == 2
MaxRuns == 2

(***************************************************************************)
(* Cluster reconciler                                                      *)
(***************************************************************************)
VARIABLES
    objState,   \* API server: request key -> "absent" | "live" | "deleting"
    loopSeq,    \* ClusterReconciler.loopSeq
    inv,        \* per concurrent Reconcile invocation: position and locals
    issued,     \* the "loop" values put in the logger meta, in issue order
    retLog,     \* what each finished invocation returned to the framework
    host,       \* input of getInstallationBaseDomainFromAPIEndpoint
    domainOut,  \* its results, one per call
    cidrBlocks, \* AzureCluster.Spec.NetworkSpec.Vnet.CIDRBlocks
    ipOut,      \* results of the master-IP derivation, one per call
    store,      \* the objects of the management cluster's API server
    crs,        \* azureMigrator.crs: the cache of fetched source objects
    last,       \* the migrator step called last and what it returned
    wp,         \* the write-phase runs so far
    kcp         \* the createKubeadmControlPlane call in flight, between its
                \* Get of the Release and its Create

recVars == <<objState, loopSeq, inv, issued, retLog>>
pureVars == <<host, domainOut, cidrBlocks, ipOut>>
migVars == <<store, crs, last, wp, kcp>>

Workers == {"w1", "w2"}
Reqs == {"default/a", "default/b"}
ObjStates == {"absent", "live", "deleting"}

NilErr == "nil"
NotFoundErr == "NotFound"
HandlerErr == "HandlerError"

\* ctrl.Result{}: only RequeueAfter (in seconds) is ever set by this code.
Result(after) == [RequeueAfter |-> after]
EmptyResult == Result(0)

\* 30 * time.Second on the deletion path and on the normal path.
RequeueAfterDelete == 30
RequeueAfterReconcile == 30

IdleInv == [pc |-> "idle", req |-> "", loop |-> 0, cluster |-> "absent",
            gerr |-> NilErr, called |-> {}, herr |-> NilErr,
            ret |-> [res |-> EmptyResult, err |-> NilErr]]

\* atomic.AddInt64(&r.loopSeq, delta): one indivisible read-modify-write
\* that returns the new value.
AddInt64NoStore(v, delta) == [new |-> v, val |-> v + delta]
AddInt64(v, delta) == [new |-> v + delta, val |-> v + delta]

\* r.Get(ctx, req.NamespacedName, cluster)
GetCluster(st) ==
    IF st = "absent" THEN [err |-> NotFoundErr, cluster |-> "absent"]
    ELSE [err |-> NilErr, cluster |-> st]

\* cluster.DeletionTimestamp.IsZero()
DeletionTimestampAlwaysZero(cluster) == TRUE
DeletionTimestampIsZero(cluster) == cluster # "deleting"

\* The two handlers as they are in the source: no-ops that succeed.
reconcile == [res |-> EmptyResult, err |-> NilErr]
reconcileDelete == [res |-> EmptyResult, err |-> NilErr]

\* Any behaviour a handler with the signature (ctrl.Result, error) can have.
AnyHandlerOutcome ==
    { [res |-> Result(a), err |-> e] : a \in {0, 5}, e \in {NilErr, HandlerErr} }

\* Lines 50-56: build the logger meta; the loop value comes from the atomic add.
\* The framework never runs two invocations for the same key at once.
Begin(w, req) ==
    /\ inv[w].pc = "idle"
    /\ loopSeq < MaxLoops
    /\ \A v \in Workers : inv[v].pc # "idle" => inv[v].req # req
    /\ LET a == AddInt64(loopSeq, 1) IN
         /\ loopSeq' = a.new
         /\ issued' = Append(issued, a.val)
         /\ inv' = [inv EXCEPT ![w] = [IdleInv EXCEPT !.pc = "get", !.req = req,
                                                      !.loop = a.val]]
    /\ UNCHANGED <<pureVars, migVars, objState, retLog>>

\* Lines 58-62: fetch the Cluster; any error is returned masked.
ReturnOnGetError(g) == [res |-> EmptyResult, err |-> g.err]

Get(w) ==
    /\ inv[w].pc = "get"
    /\ LET g == GetCluster(objState[inv[w].req]) IN
         inv' = [inv EXCEPT ![w] =
                   IF g.err # NilErr
                   THEN [@ EXCEPT !.pc = "done", !.gerr = g.err,
                                  !.ret = ReturnOnGetError(g)]
                   ELSE [@ EXCEPT !.pc = "dispatch", !.cluster = g.cluster]]
    /\ UNCHANGED <<pureVars, migVars, objState, loopSeq, issued, retLog>>

\* Lines 67-73 and 77-83: what Reconcile returns for a handler outcome h.
ReturnAfterHandlerSurfaceError(h, requeueAfter) ==
    IF h.err # NilErr THEN [res |-> EmptyResult, err |-> h.err]
    ELSE [res |-> h.res, err |-> NilErr]
ReturnAfterHandler(h, requeueAfter) ==
    IF h.err # NilErr THEN [res |-> Result(requeueAfter), err |-> NilErr]
    ELSE [res |-> h.res, err |-> NilErr]

\* Lines 65-83: dispatch on the deletion timestamp and translate the outcome.
Dispatch(w, deleteOutcomes, reconcileOutcomes) ==
    /\ inv[w].pc = "dispatch"
    /\ LET del == ~DeletionTimestampIsZero(inv[w].cluster) IN
       \E h \in (IF del THEN deleteOutcomes ELSE reconcileOutcomes) :
         inv' = [inv EXCEPT ![w] =
                   [@ EXCEPT !.pc = "done",
                             !.called = @ \cup {IF del THEN "reconcileDelete"
                                                       ELSE "reconcile"},
                             !.herr = h.err,
                             !.ret = ReturnAfterHandler(h,
                                        IF del THEN RequeueAfterDelete
                                               ELSE RequeueAfterReconcile)]]
    /\ UNCHANGED <<pureVars, migVars, objState, loopSeq, issued, retLog>>

\* The invocation returns to the framework.
Return(w) ==
    /\ inv[w].pc = "done"
    /\ retLog' = Append(retLog, [req |-> inv[w].req, gerr |-> inv[w].gerr,
                                 called |-> inv[w].called, herr |-> inv[w].herr,
                                 ret |-> inv[w].ret])
    /\ inv' = [inv EXCEPT ![w] = IdleInv]
    /\ UNCHANGED <<pureVars, migVars, objState, loopSeq, issued>>

\* The watched Cluster objects change under the controller: created, marked
\* for deletion (deletion timestamp set), removed.
NextObjState(s) ==
    IF s = "absent" THEN "live" ELSE IF s = "live" THEN "deleting" ELSE "absent"

ClusterChange(req) ==
    /\ objState' = [objState EXCEPT ![req] = NextObjState(@)]
    /\ UNCHANGED <<pureVars, migVars, loopSeq, inv, issued, retLog>>

RecIdle ==
    /\ objState = [r \in Reqs |-> "absent"]
    /\ loopSeq = 0
    /\ inv = [w \in Workers |-> IdleInv]
    /\ issued = <<>>
    /\ retLog = <<>>

InitReconcilerVars ==
    /\ objState \in [Reqs -> ObjStates]
    /\ loopSeq = 0
    /\ inv = [w \in Workers |-> IdleInv]
    /\ issued = <<>>
    /\ retLog = <<>>

(***************************************************************************)
(* Field derivation functions (pkg/migration/azure_crs.go)                 *)
(* A string is a sequence of one-character strings.                        *)
(***************************************************************************)
DomainNotFoundErr == "DomainNotFound"
VNETCIDRNotFoundErr == "VNETCIDRNotFound"
ParseErr == "ParseError"
PanicErr == "panic"

K8sLabel == <<"k", "8", "s">>

\* strings.Split(s, sep) for a one-character separator: the pieces between
\* the separators, empty pieces included; the empty string gives one empty
\* piece.
RECURSIVE SplitAcc(_, _, _, _, _)
SplitAcc(s, sep, i, cur, acc) ==
    IF i > Len(s) THEN Append(acc, cur)
    ELSE IF s[i] = sep THEN SplitAcc(s, sep, i + 1, <<>>, Append(acc, cur))
    ELSE SplitAcc(s, sep, i + 1, Append(cur, s[i]), acc)

Split(s, sep) == SplitAcc(s, sep, 1, <<>>, <<>>)

\* strings.Join(elems, sep)
RECURSIVE Join(_, _)
Join(elems, sep) ==
    IF Len(elems) = 0 THEN <<>>
    ELSE IF Len(elems) = 1 THEN elems[1]
    ELSE elems[1] \o <<sep>> \o Join(Tail(elems), sep)

SetMin(S) == CHOOSE x \in S : \A y \in S : x <= y

\* A weaker label test than the code's: the label contains "k8s" (the code, at
\* line 453, takes only a label equal to "k8s"). BaseDomainContains is the
\* derivation with that weaker test; neither is what the code does, and the
\* base-domain property has to tell the two apart.
LabelContainsK8s(l) ==
    \E p \in 1..Len(l) : p + 2 <= Len(l) /\ SubSeq(l, p, p + 2) = K8sLabel
BaseDomainContains(apiEndpoint) ==
    LET labels == Split(apiEndpoint, ".")
        hits == { i \in 1..Len(labels) : LabelContainsK8s(labels[i]) }
    IN IF hits = {} THEN [val |-> <<>>, err |-> DomainNotFoundErr]
       ELSE [val |-> Join(SubSeq(labels, SetMin(hits) + 1, Len(labels)), "."),
             err |-> NilErr]

\* Lines 449-459
getInstallationBaseDomainFromAPIEndpoint(apiEndpoint) ==
    LET labels == Split(apiEndpoint, ".")
        hits == { i \in 1..Len(labels) : labels[i] = K8sLabel }
    IN IF hits = {} THEN [val |-> <<>>, err |-> DomainNotFoundErr]
       ELSE [val |-> Join(SubSeq(labels, SetMin(hits) + 1, Len(labels)), "."),
             err |-> NilErr]

\* A CIDR string is [fam, mapped, ip, bits]: fam "v4" is a.b.c.d/bits; fam
\* "v6" is an IPv6 address whose last four bytes are ip and which is
\* IPv4-mapped (::ffff:a.b.c.d) when mapped holds; fam "bad" is text that is
\* no CIDR at all.
Pow2(n) == IF n = 0 THEN 1 ELSE IF n = 1 THEN 2 ELSE IF n = 2 THEN 4
           ELSE IF n = 3 THEN 8 ELSE IF n = 4 THEN 16 ELSE IF n = 5 THEN 32
           ELSE IF n = 6 THEN 64 ELSE IF n = 7 THEN 128 ELSE 256

\* The bits of octet number i (1..4) that a prefix of the given length keeps.
KeptBits(i, bits) ==
    LET k == bits - 8 * (i - 1) IN IF k < 0 THEN 0 ELSE IF k > 8 THEN 8 ELSE k

\* IP.Mask on four octets
Mask4(ip, bits) ==
    [i \in 1..4 |-> (ip[i] \div Pow2(8 - KeptBits(i, bits))) * Pow2(8 - KeptBits(i, bits))]

ValidOctets(ip) == Len(ip) = 4 /\ \A i \in 1..4 : ip[i] \in 0..255

\* net.ParseCIDR: the network (address masked to the prefix) or an error.
NoNet == [fam |-> "none", mapped |-> FALSE, ip |-> <<>>, bits |-> 0]
\* The first result of net.ParseCIDR, the address as written, taken for the
\* second, the network; not what line 426 does.
ParseCIDRAddress(s) ==
    IF s.fam = "v4" /\ ValidOctets(s.ip) /\ s.bits \in 0..32
    THEN [err |-> NilErr,
          net |-> [fam |-> "v4", mapped |-> FALSE, ip |-> s.ip, bits |-> s.bits]]
    ELSE IF s.fam = "v6" /\ ValidOctets(s.ip) /\ s.bits \in 0..128
    THEN [err |-> NilErr,
          net |-> [fam |-> "v6", mapped |-> s.mapped /\ s.bits >= 96,
                   ip |-> s.ip, bits |-> s.bits]]
    ELSE [err |-> ParseErr, net |-> NoNet]
ParseCIDR(s) ==
    IF s.fam = "v4" /\ ValidOctets(s.ip) /\ s.bits \in 0..32
    THEN [err |-> NilErr,
          net |-> [fam |-> "v4", mapped |-> FALSE, ip |-> Mask4(s.ip, s.bits),
                   bits |-> s.bits]]
    ELSE IF s.fam = "v6" /\ ValidOctets(s.ip) /\ s.bits \in 0..128
    THEN [err |-> NilErr,
          net |-> [fam |-> "v6", mapped |-> s.mapped /\ s.bits >= 96,
                   ip |-> Mask4(s.ip, IF s.bits >= 96 THEN s.bits - 96 ELSE 0),
                   bits |-> s.bits]]
    ELSE [err |-> ParseErr, net |-> NoNet]

\* Lines 421-432
getVNETCIDR(blocks) ==
    IF Len(blocks) = 0 THEN [err |-> VNETCIDRNotFoundErr, net |-> NoNet]
    ELSE ParseCIDR(blocks[1])

\* IP.To4: the four-byte form of an IPv4 or IPv4-mapped address, else nil.
To4LastFourBytes(n) == n.ip
To4(n) == IF n.fam = "v4" \/ (n.fam = "v6" /\ n.mapped) THEN n.ip ELSE <<>>

\* Lines 461-469; the sum is a byte sum.
getMasterIPForVNet(vnet) ==
    LET ip == To4(vnet) IN
    IF ip = <<>> THEN [err |-> PanicErr, ip |-> <<>>]
    ELSE [err |-> NilErr, ip |-> <<ip[1], ip[2], ip[3], (ip[4] + 4) % 256>>]

\* Lines 137-150: the master IP as createKubeadmControlPlane derives it.
MasterIPOf(blocks) ==
    LET v == getVNETCIDR(blocks) IN
    IF v.err # NilErr THEN [err |-> v.err, ip |-> <<>>]
    ELSE getMasterIPForVNet(v.net)

ExampleHost ==
    <<"a", "p", "i", ".", "a", "b", "c", "1", "2", "3", ".", "k", "8", "s",
      ".", "e", "x", "a", "m", "p", "l", "e", ".", "i", "n", "s", "t", "a",
      "l", "l", "a", "t", "i", "o", "n", ".", "c", "o", "m">>
ExampleDomain ==
    <<"e", "x", "a", "m", "p", "l", "e", ".", "i", "n", "s", "t", "a", "l",
      "l", "a", "t", "i", "o", "n", ".", "c", "o", "m">>

HostChars == {"k", "8", "s", "."}
RECURSIVE SeqsUpTo(_, _)
SeqsUpTo(S, n) ==
    IF n = 0 THEN {<<>>}
    ELSE LET shorter == SeqsUpTo(S, n - 1) IN
         shorter \cup { Append(q, c) : q \in { r \in shorter : Len(r) = n - 1 }, c \in S }
Hosts == SeqsUpTo(HostChars, MaxHostLen) \cup {ExampleHost}

V4Strings ==
    { [fam |-> "v4", mapped |-> FALSE, ip |-> <<a, b, c, d>>, bits |-> n] :
        a \in {10}, b \in {0, 255}, c \in {0, 255},
        d \in {0, 3, 4, 251, 252, 255, 256}, n \in {0, 8, 16, 24, 30, 31, 32, 33} }
V6Strings ==
    { [fam |-> "v6", mapped |-> m, ip |-> <<10, 0, 0, d>>, bits |-> n] :
        m \in BOOLEAN, d \in {0, 252}, n \in {64, 96, 120, 128, 129} }
BadStrings == { [fam |-> "bad", mapped |-> FALSE, ip |-> <<>>, bits |-> 0] }
CIDRStrings == V4Strings \cup V6Strings \cup BadStrings
BlockLists ==
    {<<>>} \cup { <<s>> : s \in CIDRStrings }
           \cup { <<s, t>> : s \in {[fam |-> "v4", mapped |-> FALSE,
                                     ip |-> <<10, 0, 0, 0>>, bits |-> 16]},
                             t \in BadStrings \cup V6Strings }

ApplyBaseDomain ==
    /\ Len(domainOut) < MaxCalls
    /\ domainOut' = Append(domainOut, getInstallationBaseDomainFromAPIEndpoint(host))
    /\ UNCHANGED <<recVars, migVars, host, cidrBlocks, ipOut>>

ApplyMasterIP ==
    /\ Len(ipOut) < MaxCalls
    /\ ipOut' = Append(ipOut, MasterIPOf(cidrBlocks))
    /\ UNCHANGED <<recVars, migVars, host, domainOut, cidrBlocks>>

PureIdle ==
    /\ host = <<>>
    /\ domainOut = <<>>
    /\ cidrBlocks = <<>>
    /\ ipOut = <<>>

InitDomain ==
    /\ host \in Hosts
    /\ domainOut = <<>>
    /\ cidrBlocks = <<>>
    /\ ipOut = <<>>

InitIP ==
    /\ host = <<>>
    /\ domainOut = <<>>
    /\ cidrBlocks \in BlockLists
    /\ ipOut = <<>>

(***************************************************************************)
(* Migrator (pkg/migration/azure_crs.go)                                   *)
(***************************************************************************)
clusterID == "abc123"
otherClusterID == "zzz999"

\* Line 29
EncryptionSecret == "EncryptionSecret"

AlreadyExistsErr == "AlreadyExists"
ServerErr == "ServerError"
MultipleFoundErr == "MultipleFound"
TypeMismatchErr == "TypeMismatch"
NotCalled == "notcalled"

\* The nil pointer.
NilPtr == [type |-> "nil"]

\* An object is addressed by kind, namespace and name.
KeyOf(o) == <<o.kind, o.ns, o.name>>
HasKey(st, k) == \E o \in st : KeyOf(o) = k
ObjAt(st, k) == CHOOSE o \in st : KeyOf(o) = k

\* apiFail is the set of calls ("get", "list", "create") the API server
\* fails during the step.
\* mcCtrlClient.Create: fails when the API server fails, answers
\* AlreadyExists when an object of that kind, namespace and name is there
\* (whatever its content), and adds the object otherwise.
ApiCreate(st, obj, apiFail) ==
    IF "create" \in apiFail THEN [store |-> st, err |-> ServerErr]
    ELSE IF HasKey(st, KeyOf(obj)) THEN [store |-> st, err |-> AlreadyExistsErr]
    ELSE [store |-> st \cup {obj}, err |-> NilErr]

\* mcCtrlClient.Get
ApiGet(st, k, apiFail) ==
    IF "get" \in apiFail THEN [err |-> ServerErr, obj |-> NilPtr]
    ELSE IF HasKey(st, k) THEN [err |-> NilErr, obj |-> ObjAt(st, k)]
    ELSE [err |-> NotFoundErr, obj |-> NilPtr]

\* mcCtrlClient.List with ctrl.MatchingLabels{capi.ClusterLabelName: id}
ApiList(st, kind, id, apiFail) ==
    IF "list" \in apiFail THEN [err |-> ServerErr, items |-> {}]
    ELSE [err |-> NilErr, items |-> { o \in st : o.kind = kind /\ o.label = id }]

\* m.crs[k] = v
Put(c, k, v) == [x \in DOMAIN c \cup {k} |-> IF x = k THEN v ELSE c[x]]
EmptyCache == [x \in {} |-> NilPtr]

\* Go map lookup: the zero value when the key is missing.
MapGet(m, k) == IF k \in DOMAIN m THEN m[k] ELSE ""

\* What each step returns: the store and the cache after it, the error it
\* returns (PanicErr when it panics) and the error its Create call returned.
Outcome(st, c, err, api) == [store |-> st, crs |-> c, err |-> err, api |-> api]

\* Lines 72-79 (and the same lines of every other create step): AlreadyExists
\* is success, any other error is returned.
AfterCreateForgetCache(c, r) ==
    Outcome(r.store, EmptyCache, IF r.err = AlreadyExistsErr THEN NilErr ELSE r.err, r.err)
AfterCreate(c, r) ==
    Outcome(r.store, c, IF r.err = AlreadyExistsErr THEN NilErr ELSE r.err, r.err)

\* ---- write steps -------------------------------------------------------

\* Lines 46-59: the configuration with the key material in it.
RenderEncryptionConfig(key) ==
    "kind: EncryptionConfiguration; providers: aescbc: keys: key1 secret: "
        \o key \o "; identity: {}"

\* Lines 61-70
EncryptionConfigSecret(key) ==
    [kind |-> "Secret", ns |-> "default",
     name |-> clusterID \o "-k8s-encryption-config", type |-> "Opaque",
     data |-> [encryption |-> RenderEncryptionConfig(key)]]

\* Lines 33-44: line 33 declares origEncryptionSecret, nil; line 40 is a :=
\* inside the block, which declares a second origEncryptionSecret there, so
\* the one of line 33 is still nil when line 59 reads it.
origEncryptionSecretAtLine59(obj) == NilPtr

\* Lines 32-80
createEncryptionConfigSecret(c, st, apiFail) ==
    IF EncryptionSecret \notin DOMAIN c
    THEN Outcome(st, c, NotFoundErr, NotCalled)
    ELSE IF c[EncryptionSecret].type # "Secret"
    THEN Outcome(st, c, TypeMismatchErr, NotCalled)
    ELSE LET origEncryptionSecret == origEncryptionSecretAtLine59(c[EncryptionSecret])
         IN IF origEncryptionSecret = NilPtr
            THEN Outcome(st, c, PanicErr, NotCalled)
            ELSE AfterCreate(c, ApiCreate(st,
                    EncryptionConfigSecret(MapGet(origEncryptionSecret.obj.data,
                                                  "encryption")), apiFail))

\* Lines 83-100
ProxyConfigSecret ==
    [kind |-> "Secret", ns |-> "default", name |-> clusterID \o "-proxy-config",
     type |-> "Opaque",
     data |-> [proxy |-> "kind: KubeProxyConfiguration; mode: iptables"]]

\* Lines 82-109
createProxyConfigSecret(c, st, apiFail) ==
    AfterCreate(c, ApiCreate(st, ProxyConfigSecret, apiFail))

\* strings.TrimPrefix(ver, "v") on a version given as its pieces of text.
TrimPrefixV(ver) == IF Len(ver) > 0 /\ ver[1] = "v" THEN Tail(ver) ELSE ver

RECURSIVE Concat(_)
Concat(pieces) == IF Len(pieces) = 0 THEN "" ELSE pieces[1] \o Concat(Tail(pieces))

\* Lines 434-448: the Release named by the version, as a map from component
\* name to version.
getReleaseComponentsDropError(st, ver, apiFail) ==
    LET g == ApiGet(st, <<"Release", "", Concat(TrimPrefixV(ver))>>, apiFail) IN
    [err |-> NilErr,
     components |-> IF g.err # NilErr THEN <<>> ELSE g.obj.components]
getReleaseComponents(st, ver, apiFail) ==
    LET g == ApiGet(st, <<"Release", "", Concat(TrimPrefixV(ver))>>, apiFail) IN
    IF g.err # NilErr THEN [err |-> g.err, components |-> <<>>]
    ELSE [err |-> NilErr, components |-> g.obj.components]

\* The objects the five templates render to. The templates are not part of
\* the sources at hand: each gives one object in namespace default whose name
\* is derived from the cluster ID and whose content is the configuration
\* that was passed to the template.
RenderKubeadmControlPlane(cfg) ==
    [kind |-> "KubeadmControlPlane", ns |-> "default",
     name |-> cfg.ClusterID \o "-control-plane", spec |-> cfg]
RenderMasterAzureMachineTemplate(cfg) ==
    [kind |-> "AzureMachineTemplate", ns |-> "default",
     name |-> cfg.ClusterID \o "-control-plane", spec |-> cfg]
RenderWorkersKubeadmConfigTemplate(cfg) ==
    [kind |-> "KubeadmConfigTemplate", ns |-> "default",
     name |-> cfg.ClusterID \o "-workers", spec |-> cfg]
RenderWorkersAzureMachineTemplate(cfg) ==
    [kind |-> "AzureMachineTemplate", ns |-> "default",
     name |-> cfg.ClusterID \o "-workers", spec |-> cfg]
RenderWorkersMachineDeployment(cfg) ==
    [kind |-> "MachineDeployment", ns |-> "default",
     name |-> cfg.ClusterID \o "-workers", spec |-> cfg]

\* What createKubeadmControlPlane holds once the Release has been fetched.
NoDerived == [baseDomain |-> <<>>, vnet |-> NoNet, components |-> <<>>]

\* Lines 111-145: the cached AzureCluster, the base domain, the VNET CIDR and
\* the Get of the Release. Gives the outcome when the step returns here, and
\* otherwise the values derived so far.
createKubeadmControlPlaneUntilGet(c, st, apiFail) ==
    IF "AzureCluster" \notin DOMAIN c
    THEN [returned |-> TRUE, out |-> Outcome(st, c, NotFoundErr, NotCalled),
          derived |-> NoDerived]
    ELSE IF c["AzureCluster"].type # "AzureCluster"
    THEN [returned |-> TRUE, out |-> Outcome(st, c, TypeMismatchErr, NotCalled),
          derived |-> NoDerived]
    ELSE
    LET cluster == c["AzureCluster"].obj
        baseDomain == getInstallationBaseDomainFromAPIEndpoint(cluster.host)
        vnet == getVNETCIDR(cluster.cidrs)
        rel == getReleaseComponents(st, cluster.relVer, apiFail)
    IN IF baseDomain.err # NilErr
       THEN [returned |-> TRUE, out |-> Outcome(st, c, baseDomain.err, NotCalled),
             derived |-> NoDerived]
       ELSE IF vnet.err # NilErr
       THEN [returned |-> TRUE, out |-> Outcome(st, c, vnet.err, NotCalled),
             derived |-> NoDerived]
       ELSE IF rel.err # NilErr
       THEN [returned |-> TRUE, out |-> Outcome(st, c, rel.err, NotCalled),
             derived |-> NoDerived]
       ELSE [returned |-> FALSE, out |-> Outcome(st, c, NilErr, NotCalled),
             derived |-> [baseDomain |-> baseDomain.val, vnet |-> vnet.net,
                          components |-> rel.components]]

\* Lines 147-175: the master IP, the template and the Create, against the
\* store as it is when Create is called.
createKubeadmControlPlaneFromGet(c, st, derived, apiFail) ==
    LET masterIP == getMasterIPForVNet(derived.vnet) IN
    IF masterIP.err # NilErr THEN Outcome(st, c, masterIP.err, NotCalled)
    ELSE AfterCreate(c, ApiCreate(st,
            RenderKubeadmControlPlane(
                [ClusterID |-> clusterID,
                 ClusterCIDR |-> derived.vnet,
                 ClusterMasterIP |-> masterIP.ip,
                 EtcdVersion |-> MapGet(derived.components, "etcd"),
                 K8sVersion |-> MapGet(derived.components, "kubernetes"),
                 InstallationBaseDomain |-> derived.baseDomain]), apiFail))

\* Lines 111-176, when nothing else touches the store between the Get and
\* the Create.
createKubeadmControlPlane(c, st, apiFail) ==
    LET g == createKubeadmControlPlaneUntilGet(c, st, apiFail) IN
    IF g.returned THEN g.out
    ELSE createKubeadmControlPlaneFromGet(c, st, g.derived, apiFail)

\* Lines 178-210
createMasterAzureMachineTemplate(c, st, apiFail) ==
    AfterCreate(c, ApiCreate(st,
        RenderMasterAzureMachineTemplate([ClusterID |-> clusterID]), apiFail))

\* Lines 212-244
createWorkersKubeadmConfigTemplate(c, st, apiFail) ==
    AfterCreate(c, ApiCreate(st,
        RenderWorkersKubeadmConfigTemplate([ClusterID |-> clusterID]), apiFail))

\* Lines 246-278
createWorkersAzureMachineTemplate(c, st, apiFail) ==
    AfterCreate(c, ApiCreate(st,
        RenderWorkersAzureMachineTemplate([ClusterID |-> clusterID]), apiFail))

\* Lines 280-314
createWorkersMachineDeployment(c, st, apiFail) ==
    AfterCreate(c, ApiCreate(st,
        RenderWorkersMachineDeployment(
            [ClusterID |-> clusterID, K8sVersion |-> "v1.19.9"]), apiFail))

\* ---- read steps --------------------------------------------------------

\* Lines 316-327
readEncryptionSecret(c, st, apiFail) ==
    LET g == ApiGet(st, <<"Secret", "default", clusterID \o "-encryption">>, apiFail) IN
    IF g.err # NilErr THEN Outcome(st, c, g.err, g.err)
    ELSE Outcome(st, Put(c, EncryptionSecret, [type |-> "Secret", obj |-> g.obj]),
                 NilErr, NilErr)

\* Lines 337-346 (and 359-368, 381-390): exactly one item, cached under the
\* Kind the item carries.
CacheTheOnlyItemFirstOfMany(c, st, type, l, itemKind) ==
    IF l.err # NilErr THEN Outcome(st, c, l.err, l.err)
    ELSE IF Cardinality(l.items) = 0 THEN Outcome(st, c, NotFoundErr, NilErr)
    ELSE LET obj == [(CHOOSE o \in l.items : TRUE) EXCEPT !.typeKind = itemKind] IN
         Outcome(st, Put(c, obj.typeKind, [type |-> type, obj |-> obj]), NilErr, NilErr)
CacheTheOnlyItem(c, st, type, l, itemKind) ==
    IF l.err # NilErr THEN Outcome(st, c, l.err, l.err)
    ELSE IF Cardinality(l.items) = 0 THEN Outcome(st, c, NotFoundErr, NilErr)
    ELSE IF Cardinality(l.items) > 1 THEN Outcome(st, c, MultipleFoundErr, NilErr)
    ELSE LET obj == [(CHOOSE o \in l.items : TRUE) EXCEPT !.typeKind = itemKind] IN
         Outcome(st, Put(c, obj.typeKind, [type |-> type, obj |-> obj]), NilErr, NilErr)

\* Lines 329-349
readAzureConfig(c, st, apiFail, itemKind) ==
    CacheTheOnlyItem(c, st, "AzureConfig",
                     ApiList(st, "AzureConfig", clusterID, apiFail), itemKind)

\* Lines 351-371
readCluster(c, st, apiFail, itemKind) ==
    CacheTheOnlyItem(c, st, "Cluster",
                     ApiList(st, "Cluster", clusterID, apiFail), itemKind)

\* Lines 373-393
readAzureCluster(c, st, apiFail, itemKind) ==
    CacheTheOnlyItem(c, st, "AzureCluster",
                     ApiList(st, "AzureCluster", clusterID, apiFail), itemKind)

\* Lines 403 and 416: the whole list, cached under the Kind the list carries.
CacheTheList(c, st, type, l, listKind) ==
    IF l.err # NilErr THEN Outcome(st, c, l.err, l.err)
    ELSE Outcome(st, Put(c, listKind,
                         [type |-> type,
                          obj |-> [typeKind |-> listKind, items |-> l.items]]),
                 NilErr, NilErr)

\* Lines 395-406
readMachinePools(c, st, apiFail, listKind) ==
    CacheTheList(c, st, "MachinePoolList",
                 ApiList(st, "MachinePool", clusterID, apiFail), listKind)

\* Lines 408-419
readAzureMachinePools(c, st, apiFail, listKind) ==
    CacheTheList(c, st, "AzureMachinePoolList",
                 ApiList(st, "AzureMachinePool", clusterID, apiFail), listKind)

\* The Kind a decoded object carries: its kind, or nothing when the client
\* has cleared the type information.
KindsCarried(kind) == {"", kind}

\* ---- source objects and initial states ---------------------------------
SourceKey == "k1"
OtherKey == "k2"

SourceSecret(key) ==
    [kind |-> "Secret", ns |-> "default", name |-> clusterID \o "-encryption",
     type |-> "Opaque", data |-> [encryption |-> key]]

\* The i-th object of a listed kind carrying the label of cluster id.
Labelled(kind, id, i) ==
    [kind |-> kind, ns |-> "default", name |-> id \o "-" \o ToString(i),
     label |-> id, typeKind |-> ""]

GoodHost == ExampleHost
NoK8sHost == <<"a", "p", "i", ".", "k", "8", "s", "x", ".", "i", "o">>
V4Block == [fam |-> "v4", mapped |-> FALSE, ip |-> <<10, 0, 0, 0>>, bits |-> 16]
V6Block == [fam |-> "v6", mapped |-> FALSE, ip |-> <<0, 0, 0, 0>>, bits |-> 64]

AzureClusterObj(i, h, blocks, ver) ==
    [kind |-> "AzureCluster", ns |-> "default",
     name |-> clusterID \o "-" \o ToString(i), label |-> clusterID,
     typeKind |-> "", host |-> h, cidrs |-> blocks, relVer |-> ver]

\* The AzureCluster objects the write steps are run against.
AzureClusterProfiles ==
    { AzureClusterObj(1, GoodHost, <<V4Block>>, <<"v", "1.0.0">>),
      AzureClusterObj(1, NoK8sHost, <<V4Block>>, <<"v", "1.0.0">>),
      AzureClusterObj(1, GoodHost, <<V6Block>>, <<"1.0.0">>) }

ReleaseObj ==
    [kind |-> "Release", ns |-> "", name |-> "1.0.0",
     components |-> [etcd |-> "3.4.14", kubernetes |-> "1.19.9"]]

\* A Release and the component versions it lists.
Release(name, components) ==
    [kind |-> "Release", ns |-> "", name |-> name, components |-> components]

\* The Releases the control-plane step may find: the one the label names,
\* one whose name keeps the "v", both, none, and Releases that lack the etcd
\* component, the kubernetes component, or both.
ReleaseSets ==
    { {}, {ReleaseObj}, {Release("v1.0.0", ReleaseObj.components)},
      {ReleaseObj, Release("v1.0.0", ReleaseObj.components)},
      {Release("1.0.0", [etcd |-> "3.4.14"])},
      {Release("1.0.0", [kubernetes |-> "1.19.9"])},
      {Release("1.0.0", [coredns |-> "1.8.0"])} }

\* The release-version labels: with the leading "v", without it, and with
\* two of them.
ReleaseVersionLabels == { <<"v", "1.0.0">>, <<"1.0.0">>, <<"v", "v", "1.0.0">> }

\* The CIDR block lists of the AzureCluster: none, IPv4 networks (a /16, two
\* /30 ones, one of them ending in 252), an IPv6 network, an IPv4-mapped
\* IPv6 network, text that is no CIDR.
VNetBlockLists ==
    { <<>>, <<V4Block>>, <<V6Block>>,
      <<[fam |-> "v4", mapped |-> FALSE, ip |-> <<10, 0, 0, 0>>, bits |-> 30]>>,
      <<[fam |-> "v4", mapped |-> FALSE, ip |-> <<10, 0, 255, 255>>, bits |-> 30]>>,
      <<[fam |-> "v6", mapped |-> TRUE, ip |-> <<10, 0, 0, 0>>, bits |-> 112]>>,
      <<[fam |-> "bad", mapped |-> FALSE, ip |-> <<>>, bits |-> 0]>> }

\* The seven objects the write steps create for the good AzureCluster.
TargetKeys ==
    { <<"Secret", "default", clusterID \o "-k8s-encryption-config">>,
      <<"Secret", "default", clusterID \o "-proxy-config">>,
      <<"KubeadmControlPlane", "default", clusterID \o "-control-plane">>,
      <<"AzureMachineTemplate", "default", clusterID \o "-control-plane">>,
      <<"KubeadmConfigTemplate", "default", clusterID \o "-workers">>,
      <<"AzureMachineTemplate", "default", clusterID \o "-workers">>,
      <<"MachineDeployment", "default", clusterID \o "-workers">> }

\* An object somebody else put under a target's name, with other content:
\* for the encryption-config secret, one built from the other key.
Foreign(k) ==
    IF k[1] = "Secret"
    THEN [kind |-> k[1], ns |-> k[2], name |-> k[3], type |-> "Opaque",
          data |-> IF k[3] = clusterID \o "-k8s-encryption-config"
                   THEN [encryption |-> RenderEncryptionConfig(OtherKey)]
                   ELSE [proxy |-> "mode: ipvs"]]
    ELSE [kind |-> k[1], ns |-> k[2], name |-> k[3], spec |-> [ClusterID |-> otherClusterID]]

IdleLast == [op |-> "none", err |-> NilErr, api |-> NotCalled, inject |-> {}]

\* No createKubeadmControlPlane call is between its Get and its Create.
IdleCall == [pc |-> "idle", derived |-> NoDerived, inject |-> {}]

\* The name of the control-plane object.
KCPKey == <<"KubeadmControlPlane", "default", clusterID \o "-control-plane">>

MigIdle ==
    /\ store = {}
    /\ crs = EmptyCache
    /\ last = IdleLast
    /\ wp = <<>>
    /\ kcp = IdleCall

\* Before readAzureCluster and the control-plane step: one AzureCluster of
\* the cluster in the store, the Releases, and possibly an object somebody
\* else put under the control plane's name; nothing is cached yet.
InitControlPlane ==
    \E h \in {GoodHost, NoK8sHost}, blocks \in VNetBlockLists,
       ver \in ReleaseVersionLabels, rels \in ReleaseSets,
       pre \in SUBSET {<<"KubeadmControlPlane", "default", clusterID \o "-control-plane">>} :
        /\ store = {AzureClusterObj(1, h, blocks, ver)} \cup rels
                      \cup { Foreign(t) : t \in pre }
        /\ crs = EmptyCache
        /\ last = IdleLast
        /\ wp = <<>>
        /\ kcp = IdleCall

\* Before a migration: one source object of every kind for the cluster, its
\* Release, and nothing cached. The target names are taken already, except
\* those of the proxy-config secret and of the control-plane object.
StillToCreate ==
    { <<"Secret", "default", clusterID \o "-proxy-config">>,
      <<"KubeadmControlPlane", "default", clusterID \o "-control-plane">> }
InitMigrator ==
    /\ store = { SourceSecret(SourceKey), ReleaseObj,
                 AzureClusterObj(1, GoodHost, <<V4Block>>, <<"v", "1.0.0">>) }
               \cup { Labelled(kind, clusterID, 1) :
                        kind \in {"AzureConfig", "Cluster", "MachinePool",
                                  "AzureMachinePool"} }
               \cup { Foreign(t) : t \in TargetKeys \ StillToCreate }
    /\ crs = EmptyCache
    /\ last = IdleLast
    /\ wp = <<>>
    /\ kcp = IdleCall

\* The target names somebody else has taken before the migration: none, any
\* one of them, or all of them.
Preexisting == {{}} \cup { {t} : t \in TargetKeys } \cup {TargetKeys}

\* Before the write steps: the sources are in the store, some target names
\* may be taken already, and the cache holds what the read steps that were
\* run have put there.
InitWrite ==
    \E ac \in AzureClusterProfiles, rels \in SUBSET {ReleaseObj}, pre \in Preexisting,
       didEnc \in BOOLEAN, didAz \in BOOLEAN, k \in KindsCarried("AzureCluster") :
        /\ store = {SourceSecret(SourceKey), ac} \cup rels \cup { Foreign(t) : t \in pre }
        /\ LET c1 == IF didEnc THEN readEncryptionSecret(EmptyCache, store, {}).crs
                     ELSE EmptyCache
           IN crs = IF didAz THEN readAzureCluster(c1, store, {}, k).crs ELSE c1
        /\ last = IdleLast
        /\ wp = <<>>
        /\ kcp = IdleCall

\* Before the read steps: no, one or several source objects of each kind
\* (every MachinePool has its AzureMachinePool), and always one object of
\* every kind that belongs to another cluster.
ItemCounts == {0, 1, MaxItems}
InitRead ==
    \E keys \in SUBSET {SourceKey},
       nAzureConfig \in ItemCounts, nCluster \in ItemCounts, nAzureCluster \in ItemCounts,
       nMachinePool \in {0, MaxItems}, nAzureMachinePool \in {0, MaxItems} :
        /\ nAzureMachinePool = nMachinePool
        /\ store = { SourceSecret(key) : key \in keys }
               \cup { Labelled("AzureConfig", clusterID, i) : i \in 1..nAzureConfig }
               \cup { Labelled("Cluster", clusterID, i) : i \in 1..nCluster }
               \cup { AzureClusterObj(i, GoodHost, <<V4Block>>, <<"v", "1.0.0">>) :
                        i \in 1..nAzureCluster }
               \cup { Labelled("MachinePool", clusterID, i) : i \in 1..nMachinePool }
               \cup { Labelled("AzureMachinePool", clusterID, i) :
                        i \in 1..nAzureMachinePool }
               \cup { Labelled(kind, otherClusterID, 1) :
                        kind \in {"AzureConfig", "Cluster", "AzureCluster",
                                  "MachinePool", "AzureMachinePool"} }
        /\ crs = EmptyCache
        /\ last = IdleLast
        /\ wp = <<>>
        /\ kcp = IdleCall

\* ---- steps as actions --------------------------------------------------
\* The process was stopped while a call was waiting for the API server.
StoppedErr == "stopped"

\* A step runs in a live process (a panic or a stop has ended it), and the
\* migrator runs one step at a time.
Step(op, r, apiFail) ==
    /\ last.err \notin {PanicErr, StoppedErr}
    /\ kcp.pc = "idle"
    /\ store' = r.store
    /\ crs' = r.crs
    /\ last' = [op |-> op, err |-> r.err, api |-> r.api, inject |-> apiFail]
    /\ UNCHANGED <<recVars, pureVars, wp, kcp>>

CreateEncryptionConfigSecret ==
    \E f \in SUBSET {"create"} :
        Step("createEncryptionConfigSecret", createEncryptionConfigSecret(crs, store, f), f)
CreateProxyConfigSecret ==
    \E f \in SUBSET {"create"} :
        Step("createProxyConfigSecret", createProxyConfigSecret(crs, store, f), f)
\* createKubeadmControlPlane makes two calls to the API server, the Get of
\* the Release (line 437, from line 142) and the Create (line 168), and waits
\* in each. Up to the Get: the step returns when a prerequisite fails, and
\* otherwise goes on with what it derived.
CreateKubeadmControlPlaneGet ==
    \E f \in SUBSET {"get", "create"} :
        LET g == createKubeadmControlPlaneUntilGet(crs, store, f) IN
        IF g.returned
        THEN Step("createKubeadmControlPlane", g.out, f)
        ELSE /\ last.err \notin {PanicErr, StoppedErr}
             /\ kcp.pc = "idle"
             /\ kcp' = [pc |-> "create", derived |-> g.derived, inject |-> f]
             /\ last' = [op |-> "createKubeadmControlPlane.Get", err |-> NilErr,
                         api |-> NilErr, inject |-> f]
             /\ UNCHANGED <<recVars, pureVars, store, crs, wp>>

\* From the Get on: the master IP and the Create, against the store as it is
\* by then.
CreateKubeadmControlPlaneCreate ==
    /\ kcp.pc = "create"
    /\ LET r == createKubeadmControlPlaneFromGet(crs, store, kcp.derived, kcp.inject) IN
        /\ store' = r.store
        /\ crs' = r.crs
        /\ last' = [op |-> "createKubeadmControlPlane", err |-> r.err,
                    api |-> r.api, inject |-> kcp.inject]
    /\ kcp' = IdleCall
    /\ UNCHANGED <<recVars, pureVars, wp>>

\* Between the two calls: another client of the API server creates an
\* object under the control plane's name.
OtherClientCreates ==
    /\ kcp.pc = "create"
    /\ ~HasKey(store, KCPKey)
    /\ store' = store \cup {Foreign(KCPKey)}
    /\ last' = [op |-> "otherClient", err |-> NilErr, api |-> NotCalled, inject |-> {}]
    /\ UNCHANGED <<recVars, pureVars, crs, wp, kcp>>

\* Between the two calls: the process is stopped, and Create is never
\* called.
ProcessStopped ==
    /\ kcp.pc = "create"
    /\ kcp' = IdleCall
    /\ last' = [op |-> "stopped", err |-> StoppedErr, api |-> NotCalled,
                inject |-> kcp.inject]
    /\ UNCHANGED <<recVars, pureVars, store, crs, wp>>

CreateKubeadmControlPlane ==
    \/ CreateKubeadmControlPlaneGet
    \/ CreateKubeadmControlPlaneCreate
    \/ OtherClientCreates
    \/ ProcessStopped
CreateMasterAzureMachineTemplate ==
    \E f \in SUBSET {"create"} :
        Step("createMasterAzureMachineTemplate",
             createMasterAzureMachineTemplate(crs, store, f), f)
CreateWorkersKubeadmConfigTemplate ==
    \E f \in SUBSET {"create"} :
        Step("createWorkersKubeadmConfigTemplate",
             createWorkersKubeadmConfigTemplate(crs, store, f), f)
CreateWorkersAzureMachineTemplate ==
    \E f \in SUBSET {"create"} :
        Step("createWorkersAzureMachineTemplate",
             createWorkersAzureMachineTemplate(crs, store, f), f)
CreateWorkersMachineDeployment ==
    \E f \in SUBSET {"create"} :
        Step("createWorkersMachineDeployment",
             createWorkersMachineDeployment(crs, store, f), f)

ReadEncryptionSecret ==
    \E f \in SUBSET {"get"} :
        Step("readEncryptionSecret", readEncryptionSecret(crs, store, f), f)
ReadAzureConfig ==
    \E f \in SUBSET {"list"}, k \in KindsCarried("AzureConfig") :
        Step("readAzureConfig", readAzureConfig(crs, store, f, k), f)
ReadCluster ==
    \E f \in SUBSET {"list"}, k \in KindsCarried("Cluster") :
        Step("readCluster", readCluster(crs, store, f, k), f)
ReadAzureCluster ==
    \E f \in SUBSET {"list"}, k \in KindsCarried("AzureCluster") :
        Step("readAzureCluster", readAzureCluster(crs, store, f, k), f)
ReadMachinePools ==
    \E f \in SUBSET {"list"}, k \in KindsCarried("MachinePoolList") :
        Step("readMachinePools", readMachinePools(crs, store, f, k), f)
ReadAzureMachinePools ==
    \E f \in SUBSET {"list"}, k \in KindsCarried("AzureMachinePoolList") :
        Step("readAzureMachinePools", readAzureMachinePools(crs, store, f, k), f)

\* ---- the write phase ---------------------------------------------------
\* The caller of the seven write steps is not part of the sources at hand:
\* it runs them in this order and stops at the first one that fails.
NumWriteSteps == 7
WriteStep(k, c, st, apiFail) ==
    IF k = 1 THEN createEncryptionConfigSecret(c, st, apiFail)
    ELSE IF k = 2 THEN createProxyConfigSecret(c, st, apiFail)
    ELSE IF k = 3 THEN createKubeadmControlPlane(c, st, apiFail)
    ELSE IF k = 4 THEN createMasterAzureMachineTemplate(c, st, apiFail)
    ELSE IF k = 5 THEN createWorkersKubeadmConfigTemplate(c, st, apiFail)
    ELSE IF k = 6 THEN createWorkersAzureMachineTemplate(c, st, apiFail)
    ELSE createWorkersMachineDeployment(c, st, apiFail)

\* Steps k.. in order; failAt is the step whose Create the API server fails
\* (0: none). Gives the return value, the step that stopped the run (8: none)
\* and the steps that were executed.
RECURSIVE RunWriteSteps(_, _, _, _, _)
RunWriteSteps(k, c, st, failAt, executed) ==
    IF k > NumWriteSteps
    THEN [store |-> st, err |-> NilErr, stopped |-> k, executed |-> executed]
    ELSE LET r == WriteStep(k, c, st, IF k = failAt THEN {"create"} ELSE {}) IN
         IF r.err # NilErr
         THEN [store |-> r.store, err |-> r.err, stopped |-> k,
               executed |-> executed \cup {k}]
         ELSE RunWriteSteps(k + 1, r.crs, r.store, failAt, executed \cup {k})

WritePhase ==
    /\ last.err # PanicErr
    /\ Len(wp) < MaxRuns
    /\ \E failAt \in 0..NumWriteSteps :
        LET r == RunWriteSteps(1, crs, store, failAt, {}) IN
        /\ store' = r.store
        /\ last' = [op |-> "writePhase", err |-> r.err, api |-> NotCalled, inject |-> {}]
        /\ wp' = Append(wp, [failAt |-> failAt, ret |-> r.err, stopped |-> r.stopped,
                             executed |-> r.executed, before |-> store,
                             after |-> r.store])
    /\ UNCHANGED <<recVars, pureVars, crs, kcp>>

\* After a panic the process is gone; a new one is started, whose read phase
\* fills its cache from the same sources.
Restart ==
    /\ last.err = PanicErr
    /\ last' = IdleLast
    /\ UNCHANGED <<recVars, pureVars, store, crs, wp, kcp>>

vars == <<recVars, pureVars, migVars>>

InitReconciler == InitReconcilerVars /\ PureIdle /\ MigIdle
InitDomainSpec == RecIdle /\ InitDomain /\ MigIdle
InitIPSpec == RecIdle /\ InitIP /\ MigIdle

NextReconcile ==
    \/ \E w \in Workers, req \in Reqs : Begin(w, req)
    \/ \E w \in Workers : Get(w)
    \/ \E w \in Workers : Dispatch(w, {reconcileDelete}, {reconcile})
    \/ \E w \in Workers : Return(w)
    \/ \E req \in Reqs : ClusterChange(req)

NextHandlers ==
    \/ \E w \in Workers, req \in Reqs : Begin(w, req)
    \/ \E w \in Workers : Get(w)
    \/ \E w \in Workers : Dispatch(w, AnyHandlerOutcome, AnyHandlerOutcome)
    \/ \E w \in Workers : Return(w)
    \/ \E req \in Reqs : ClusterChange(req)

SpecReconcile == InitReconciler /\ [][NextReconcile]_vars
SpecHandlers == InitReconciler /\ [][NextHandlers]_vars

SpecDomain == InitDomainSpec /\ [][ApplyBaseDomain]_vars
SpecIP == InitIPSpec /\ [][ApplyMasterIP]_vars

NextWrite ==
    \/ CreateEncryptionConfigSecret
    \/ CreateProxyConfigSecret
    \/ CreateKubeadmControlPlane
    \/ CreateMasterAzureMachineTemplate
    \/ CreateWorkersKubeadmConfigTemplate
    \/ CreateWorkersAzureMachineTemplate
    \/ CreateWorkersMachineDeployment

NextRead ==
    \/ ReadEncryptionSecret
    \/ ReadAzureConfig
    \/ ReadCluster
    \/ ReadAzureCluster
    \/ ReadMachinePools
    \/ ReadAzureMachinePools

NextWritePhase == WritePhase \/ Restart

\* readAzureCluster, the control-plane step and the step after it.
NextControlPlane ==
    \/ ReadAzureCluster
    \/ CreateKubeadmControlPlane
    \/ CreateMasterAzureMachineTemplate

InitControlPlaneSpec == RecIdle /\ PureIdle /\ InitControlPlane
SpecControlPlane == InitControlPlaneSpec /\ [][NextControlPlane]_vars

\* The read steps and the write steps of one migrator, in any order.
NextMigrator == NextRead \/ NextWrite
InitMigratorSpec == RecIdle /\ PureIdle /\ InitMigrator
SpecMigrator == InitMigratorSpec /\ [][NextMigrator]_vars

Init == RecIdle /\ PureIdle /\ InitWrite
InitReadSpec == RecIdle /\ PureIdle /\ InitRead
Next == NextWrite

\* The write steps, called one at a time in any order.
Spec == Init /\ [][Next]_vars
\* The read steps, called one at a time in any order.
SpecRead == InitReadSpec /\ [][NextRead]_vars
\* The write phase as a whole, run and re-run.
SpecWritePhase == Init /\ [][NextWritePhase]_vars
(***************************************************************************)
(* Claims about the reconciler                                             *)
(***************************************************************************)
\* Every invocation that has produced its return value: the finished ones
\* and the ones about to return.
Returned ==
    { retLog[i] : i \in 1..Len(retLog) } \cup
    { [req |-> inv[w].req, gerr |-> inv[w].gerr, called |-> inv[w].called,
       herr |-> inv[w].herr, ret |-> inv[w].ret] : w \in { v \in Workers : inv[v].pc = "done" } }

\* C2 (as stated): when the Get of a Reconcile invocation returns not-found,
\* no handler is invoked and Reconcile returns an empty result with a nil
\* error, so the framework drops the request.
C2_AbsentIsTerminal ==
    \A r \in Returned :
        r.gerr = NotFoundErr =>
            /\ r.called = {}
            /\ r.ret = [res |-> EmptyResult, err |-> NilErr]

\* C3: whenever the dispatched handler returns an error, Reconcile returns
\* RequeueAfter = 30 s with a nil error, on every failure alike, and never
\* hands the handler's error to the framework.
C3_FixedRequeueOnHandlerError ==
    \A r \in Returned :
        r.herr # NilErr =>
            /\ r.ret.err = NilErr
            /\ r.ret.res = Result(30)

\* C3 witness: two consecutive failures for the same object, both returned
\* with the same delay.
C3_Witness ==
    \E i, j \in 1..Len(retLog) :
        /\ i < j
        /\ retLog[i].req = retLog[j].req
        /\ \A k \in (i + 1)..(j - 1) : retLog[k].req # retLog[i].req
        /\ retLog[i].herr # NilErr /\ retLog[j].herr # NilErr
        /\ retLog[i].called = {"reconcile"} /\ retLog[j].called = {"reconcileDelete"}
        /\ retLog[i].ret.res.RequeueAfter = 30
        /\ retLog[j].ret.res.RequeueAfter = 30

\* C10: under any interleaving of concurrent invocations every invocation
\* gets a loop value no other invocation got, the counter never decreases,
\* and after n increments the counter equals n.
C10_AtomicLoopCounter ==
    /\ [](/\ \A i, j \in 1..Len(issued) : i # j => issued[i] # issued[j]
          /\ loopSeq = Len(issued)
          /\ \A v, w \in Workers :
                (v # w /\ inv[v].pc # "idle" /\ inv[w].pc # "idle")
                    => inv[v].loop # inv[w].loop)
    /\ [][loopSeq' >= loopSeq]_vars

\* C10 witness: two invocations in flight at once, each holding its own
\* loop value, after at least two increments.
C10_Witness ==
    /\ inv["w1"].pc = "dispatch" /\ inv["w2"].pc = "get"
    /\ inv["w1"].loop # inv["w2"].loop
    /\ loopSeq >= 2

\* C12: an invocation that found its Cluster invokes exactly one handler,
\* reconcileDelete when the deletion timestamp is set and reconcile when it
\* is not, never both; when the handler succeeds Reconcile returns the
\* handler's result with a nil error and no requeue delay.
C12_ExactlyOneHandler ==
    \A w \in Workers :
        (inv[w].pc = "done" /\ inv[w].gerr = NilErr) =>
            /\ inv[w].cluster \in {"live", "deleting"}
            /\ inv[w].cluster = "deleting" => inv[w].called = {"reconcileDelete"}
            /\ inv[w].cluster = "live" => inv[w].called = {"reconcile"}
            /\ Cardinality(inv[w].called) = 1
            /\ inv[w].herr = NilErr =>
                  /\ inv[w].ret.err = NilErr
                  /\ inv[w].ret.res =
                        (IF inv[w].cluster = "deleting" THEN reconcileDelete.res
                                                        ELSE reconcile.res)
                  /\ inv[w].ret.res.RequeueAfter = 0

\* C12 witness: two invocations about to return, one that found its Cluster
\* marked for deletion and ran reconcileDelete, one that found it live and
\* ran reconcile.
C12_Witness ==
    /\ inv["w1"].pc = "done" /\ inv["w2"].pc = "done"
    /\ inv["w1"].cluster = "deleting" /\ inv["w1"].called = {"reconcileDelete"}
    /\ inv["w2"].cluster = "live" /\ inv["w2"].called = {"reconcile"}
    /\ inv["w1"].ret = [res |-> EmptyResult, err |-> NilErr]
    /\ inv["w2"].ret = [res |-> EmptyResult, err |-> NilErr]

(***************************************************************************)
(* Claims about the derivation functions                                   *)
(***************************************************************************)
\* The address a.b.c.d as one number and the network of a prefix, by
\* arithmetic on that number.
RECURSIVE TwoTo(_)
TwoTo(n) == IF n = 0 THEN 1 ELSE 2 * TwoTo(n - 1)
AddrNumber(ip) == ip[1] * TwoTo(24) + ip[2] * TwoTo(16) + ip[3] * TwoTo(8) + ip[4]
NetworkNumber(ip, bits) ==
    IF bits = 0 THEN 0 ELSE AddrNumber(ip) - (AddrNumber(ip) % TwoTo(32 - bits))
OctetsOf(n) ==
    <<n \div TwoTo(24), (n \div TwoTo(16)) % 256, (n \div TwoTo(8)) % 256, n % 256>>

IsValidV4(s) == s.fam = "v4" /\ ValidOctets(s.ip) /\ s.bits \in 0..32
IsValidCIDR(s) ==
    \/ IsValidV4(s)
    \/ s.fam = "v6" /\ ValidOctets(s.ip) /\ s.bits \in 0..128

HasIPv4Form(block) == block.fam = "v4" \/ (block.mapped /\ block.bits >= 96)
BitsOnLastFourBytes(block) ==
    IF block.fam = "v4" THEN block.bits
    ELSE IF block.bits >= 96 THEN block.bits - 96 ELSE 0

K8sAt(h, p) ==
    /\ p + 2 <= Len(h)
    /\ SubSeq(h, p, p + 2) = K8sLabel
    /\ (p = 1 \/ h[p - 1] = ".")
    /\ (p + 2 = Len(h) \/ h[p + 3] = ".")

\* C8: the base-domain derivation succeeds exactly when some label equals
\* "k8s", then returns everything after the first such label, and otherwise
\* fails with domain-not-found; api.abc123.k8s.example.installation.com
\* gives example.installation.com.
C8_BaseDomain ==
    /\ \A i \in 1..Len(domainOut) :
        LET at == { p \in 1..Len(host) : K8sAt(host, p) } IN
        /\ (domainOut[i].err = NilErr) <=> (at # {})
        /\ at # {} => domainOut[i].val = SubSeq(host, SetMin(at) + 4, Len(host))
        /\ at = {} => domainOut[i].err = DomainNotFoundErr
    /\ (host = ExampleHost /\ domainOut # <<>>) => domainOut[1].val = ExampleDomain

\* C8 witness: a host with two labels equal to "k8s" has been derived, and
\* what follows the first of them came back.
C8_Witness ==
    /\ host = <<"k", "8", "s", ".", "k", "8", "s">>
    /\ domainOut # <<>>
    /\ domainOut[1] = [val |-> K8sLabel, err |-> NilErr]

(***************************************************************************)
(* Claims about the migrator                                               *)
(***************************************************************************)
EncCached == EncryptionSecret \in DOMAIN crs /\ crs[EncryptionSecret].type = "Secret"
EncConfigKey == <<"Secret", "default", clusterID \o "-k8s-encryption-config">>

\* C1 (as stated): with the encryption secret cached, and the API server
\* answering, createEncryptionConfigSecret returns success; it leaves the
\* store as it is when <id>-k8s-encryption-config exists in namespace
\* default, and otherwise adds exactly one secret of that name whose
\* "encryption" payload embeds the cached key material.
C1_EncryptionConfigSecret ==
    [][(last'.op = "createEncryptionConfigSecret" /\ last'.inject = {} /\ EncCached) =>
         /\ last'.err = NilErr
         /\ HasKey(store, EncConfigKey) => store' = store
         /\ ~HasKey(store, EncConfigKey) =>
              \E o \in store' :
                 /\ store' = store \cup {o}
                 /\ KeyOf(o) = EncConfigKey
                 /\ o.data.encryption =
                      RenderEncryptionConfig(crs[EncryptionSecret].obj.data.encryption)
      ]_vars

\* Whether everything createKubeadmControlPlane needs before its Create call
\* is there, and whether every write step's prerequisites are.
KCPReachesCreate == createKubeadmControlPlane(crs, store, {}).api # NotCalled
WritePrereqs == EncCached /\ KCPReachesCreate

\* C4 (as stated): the seven write steps run twice in order against the same
\* cache and cluster state: the second run returns success from every step,
\* no AlreadyExists reaches the caller, and the store after the second run
\* equals the store after the first.
C4_WritePhaseIdempotent ==
    \A i \in 2..Len(wp) :
        (WritePrereqs /\ wp[i - 1].failAt = 0 /\ wp[i].failAt = 0) =>
            /\ wp[i].ret = NilErr
            /\ wp[i].executed = 1..NumWriteSteps
            /\ wp[i].after = wp[i - 1].after

\* Run i of the write phase stopped at step k because the Create of step k
\* returned an error other than AlreadyExists.
RunStoppedAtCreateError(i) ==
    /\ wp[i].failAt \in 1..NumWriteSteps
    /\ wp[i].stopped = wp[i].failAt
    /\ wp[i].ret = ServerErr

\* C5 (as stated): when a run of the write phase stopped at step k because
\* that step's Create returned an error other than AlreadyExists, no step
\* after k was executed in that run, nothing that was in the store was taken
\* away, and a later run in which no Create fails ends with all seven
\* targets present and success.
C5_ResumeAfterFailure ==
    \A i, j \in 1..Len(wp) :
        (i < j /\ RunStoppedAtCreateError(i) /\ wp[j].failAt = 0) =>
            /\ \A k \in wp[i].executed : k <= wp[i].stopped
            /\ wp[i].before \subseteq wp[i].after
            /\ wp[i].after \subseteq wp[j].after
            /\ wp[j].ret = NilErr
            /\ \A t \in TargetKeys : HasKey(wp[j].after, t)

\* No run of the write phase gets as far as a Create: the first step
\* returns not-found without the cached secret and aborts with it.
NoRunStopsAtCreateError == \A i \in 1..Len(wp) : ~RunStoppedAtCreateError(i)

ListedKind(op) ==
    IF op = "readAzureConfig" THEN "AzureConfig"
    ELSE IF op = "readCluster" THEN "Cluster" ELSE "AzureCluster"

\* C6: readAzureConfig, readCluster and readAzureCluster fail with not-found
\* on zero matching objects and with multiple-found on two or more, leave the
\* cache unchanged then and when List fails, and succeed only on exactly one
\* object, which they cache.
C6_ExactlyOne ==
    [][\A op \in {"readAzureConfig", "readCluster", "readAzureCluster"} :
         last'.op = op =>
           LET found == { o \in store : o.kind = ListedKind(op) /\ o.label = clusterID }
               n == Cardinality(found)
           IN /\ "list" \in last'.inject => (last'.err = ServerErr /\ crs' = crs)
              /\ ("list" \notin last'.inject /\ n = 0) =>
                    (last'.err = NotFoundErr /\ crs' = crs)
              /\ ("list" \notin last'.inject /\ n >= 2) =>
                    (last'.err = MultipleFoundErr /\ crs' = crs)
              /\ last'.err = NilErr => ("list" \notin last'.inject /\ n = 1)
              /\ ("list" \notin last'.inject /\ n = 1) =>
                    /\ last'.err = NilErr
                    /\ \E k \in DOMAIN crs' :
                          /\ crs'[k].type = ListedKind(op)
                          /\ crs'[k].obj.name \in { o.name : o \in found }
                          /\ DOMAIN crs' = DOMAIN crs \cup {k}
                          /\ \A x \in DOMAIN crs \ {k} : crs'[x] = crs[x]
      ]_vars

\* C6 witness: readAzureCluster has just failed on two AzureClusters, and
\* the cache still holds the one Cluster an earlier readCluster put there.
C6_Witness ==
    /\ last.op = "readAzureCluster"
    /\ last.err = MultipleFoundErr
    /\ Cardinality({ o \in store : o.kind = "AzureCluster" /\ o.label = clusterID }) >= 2
    /\ "Cluster" \in DOMAIN crs
    /\ crs["Cluster"].type = "Cluster"
    /\ "AzureCluster" \notin DOMAIN crs

WriteOps ==
    {"createEncryptionConfigSecret", "createProxyConfigSecret",
     "createKubeadmControlPlane", "createMasterAzureMachineTemplate",
     "createWorkersKubeadmConfigTemplate", "createWorkersAzureMachineTemplate",
     "createWorkersMachineDeployment"}

TargetOf(op) ==
    IF op = "createEncryptionConfigSecret" THEN EncConfigKey
    ELSE IF op = "createProxyConfigSecret"
    THEN <<"Secret", "default", clusterID \o "-proxy-config">>
    ELSE IF op = "createKubeadmControlPlane"
    THEN <<"KubeadmControlPlane", "default", clusterID \o "-control-plane">>
    ELSE IF op = "createMasterAzureMachineTemplate"
    THEN <<"AzureMachineTemplate", "default", clusterID \o "-control-plane">>
    ELSE IF op = "createWorkersKubeadmConfigTemplate"
    THEN <<"KubeadmConfigTemplate", "default", clusterID \o "-workers">>
    ELSE IF op = "createWorkersAzureMachineTemplate"
    THEN <<"AzureMachineTemplate", "default", clusterID \o "-workers">>
    ELSE <<"MachineDeployment", "default", clusterID \o "-workers">>

PrereqsOf(op) ==
    IF op = "createEncryptionConfigSecret" THEN EncCached
    ELSE IF op = "createKubeadmControlPlane" THEN KCPReachesCreate ELSE TRUE

\* C9 (as stated): a write step whose target name is taken by an object of
\* other content returns success and leaves that object, and the rest of the
\* store, as it was; no write step removes or changes an object.
C9_MatchByNameNeverUpdate ==
    [][\A op \in WriteOps :
         last'.op = op =>
           /\ store \subseteq store'
           /\ (/\ last'.inject = {}
               /\ PrereqsOf(op)
               /\ HasKey(store, TargetOf(op))
               /\ ObjAt(store, TargetOf(op)) = Foreign(TargetOf(op)))
                 => (last'.err = NilErr /\ store' = store)
      ]_vars

(***************************************************************************)
(* Claims about the control-plane step                                     *)
(***************************************************************************)
\* What the cache holds under "AzureCluster", read off the cache itself.
CachedAzureCluster ==
    "AzureCluster" \in DOMAIN crs /\ crs["AzureCluster"].type = "AzureCluster"
CachedHost == crs["AzureCluster"].obj.host
CachedBlocks == crs["AzureCluster"].obj.cidrs
CachedVersion == crs["AzureCluster"].obj.relVer

HostHasK8sLabel(h) == \E p \in 1..Len(h) : K8sAt(h, p)
FirstBlockParses(blocks) == blocks # <<>> /\ IsValidCIDR(blocks[1])
FirstBlockIsIPv6(blocks) ==
    blocks # <<>> /\ IsValidCIDR(blocks[1]) /\ blocks[1].fam = "v6"

\* The name of the Release a release-version label stands for, and whether
\* the step can fetch it.
ReleaseKeyOf(ver) ==
    <<"Release", "", IF ver[1] = "v" THEN Concat(Tail(ver)) ELSE Concat(ver)>>
ReleaseFetchable(ver, st, inject) == "get" \notin inject /\ HasKey(st, ReleaseKeyOf(ver))

\* C11 (as stated): with a cached AzureCluster whose first VNET CIDR block is
\* an IPv6 network, the control-plane step returns no error value but aborts
\* the process, creates nothing, and no step is executed after it.
C11_Original ==
    /\ [][(/\ last'.op = "createKubeadmControlPlane"
           /\ CachedAzureCluster
           /\ FirstBlockIsIPv6(CachedBlocks))
             => (last'.err = PanicErr /\ last'.api = NotCalled /\ store' = store)
       ]_vars
    /\ [][last.err # PanicErr]_vars

\* C11 (amended): with a cached AzureCluster whose endpoint host has a "k8s"
\* label, whose Release can be fetched and whose first VNET CIDR block is an
\* IPv6 network with no four-byte form, the control-plane step returns no
\* error value but aborts the process in the master-IP derivation, creates
\* nothing, and no step is executed after it.
C11_IPv6Aborts ==
    /\ [][(/\ last'.op = "createKubeadmControlPlane"
           /\ CachedAzureCluster
           /\ FirstBlockIsIPv6(CachedBlocks)
           /\ ~HasIPv4Form(CachedBlocks[1])
           /\ HostHasK8sLabel(CachedHost)
           /\ ReleaseFetchable(CachedVersion, store, last'.inject))
             => (last'.err = PanicErr /\ last'.api = NotCalled /\ store' = store)
       ]_vars
    /\ [][last.err # PanicErr]_vars

\* C11 witness: the control-plane step has aborted on an IPv6 network, and
\* the store holds no control-plane object.
C11_Witness ==
    /\ last.op = "createKubeadmControlPlane"
    /\ last.err = PanicErr
    /\ CachedAzureCluster
    /\ FirstBlockIsIPv6(CachedBlocks)
    /\ ~HasKey(store, KCPKey)

\* C13: createKubeadmControlPlane calls Create only after every prerequisite
\* succeeded; with no "AzureCluster" cache entry or one of the wrong type, a
\* host without a "k8s" label, an empty CIDR list or an unparsable first
\* block, or a Release (named by the label without its leading "v") that
\* cannot be fetched, it returns an error and leaves the store unchanged.
C13_CreateAfterPrerequisites ==
    [][last'.op = "createKubeadmControlPlane" =>
         LET ok == IF ~CachedAzureCluster THEN FALSE
                   ELSE /\ HostHasK8sLabel(CachedHost)
                        /\ FirstBlockParses(CachedBlocks)
                        /\ ReleaseFetchable(CachedVersion, store, last'.inject)
         IN /\ ~ok => /\ last'.err \notin {NilErr, PanicErr}
                      /\ last'.api = NotCalled
                      /\ store' = store
            /\ last'.api # NotCalled => ok
      ]_vars

\* C13 witness: the label says v1.0.0 and only a Release named v1.0.0 is
\* there; the step looked for 1.0.0, returned not-found and created nothing.
C13_Witness ==
    /\ last.op = "createKubeadmControlPlane"
    /\ last.inject = {}
    /\ CachedAzureCluster
    /\ HostHasK8sLabel(CachedHost)
    /\ FirstBlockParses(CachedBlocks)
    /\ CachedVersion = <<"v", "1.0.0">>
    /\ HasKey(store, <<"Release", "", "v1.0.0">>)
    /\ ~HasKey(store, <<"Release", "", "1.0.0">>)
    /\ last.err = NotFoundErr
    /\ last.api = NotCalled
    /\ ~HasKey(store, KCPKey)

\* C14 (as stated): after a successful readAzureCluster the fetched object
\* is cached under "AzureCluster", whatever Kind the listed item carries, so
\* a createKubeadmControlPlane that follows finds it.
C14_CachedUnderKindName ==
    [][/\ (last'.op = "readAzureCluster" /\ last'.err = NilErr) =>
            /\ "AzureCluster" \in DOMAIN crs'
            /\ crs'["AzureCluster"].type = "AzureCluster"
            /\ \E o \in store : /\ o.kind = "AzureCluster" /\ o.label = clusterID
                                /\ crs'["AzureCluster"].obj.name = o.name
       /\ (/\ last.op = "readAzureCluster" /\ last.err = NilErr
           /\ last'.op \in {"createKubeadmControlPlane",
                             "createKubeadmControlPlane.Get"}) => CachedAzureCluster
      ]_vars

\* The address range of a network: a is inside ip/bits when both have the
\* same network number.
InsideNetwork(a, net) == NetworkNumber(a, net.bits) = NetworkNumber(net.ip, net.bits)

\* C16 (as stated): the master IP of every control-plane object the step
\* created from an IPv4 VNET CIDR is an address inside that CIDR.
C16_MasterIPInsideVNet ==
    \A o \in store :
        (/\ o.kind = "KubeadmControlPlane"
         /\ o.spec.ClusterID = clusterID
         /\ o.spec.ClusterCIDR.fam = "v4")
            => /\ ValidOctets(o.spec.ClusterMasterIP)
               /\ InsideNetwork(o.spec.ClusterMasterIP, o.spec.ClusterCIDR)

\* C18 (as stated): the control-plane object is created only with the etcd
\* and Kubernetes versions of the fetched Release's components "etcd" and
\* "kubernetes"; when the Release lacks one of them the step returns an
\* error and creates nothing.
C18_VersionsFromRelease ==
    [][(/\ last'.op = "createKubeadmControlPlane"
        /\ CachedAzureCluster
        /\ ReleaseFetchable(CachedVersion, store, last'.inject)) =>
          LET components == ObjAt(store, ReleaseKeyOf(CachedVersion)).components IN
          /\ ~({"etcd", "kubernetes"} \subseteq DOMAIN components) =>
                (last'.err # NilErr /\ store' = store)
          /\ \A o \in store' \ store :
                /\ {"etcd", "kubernetes"} \subseteq DOMAIN components
                /\ o.spec.EtcdVersion = components["etcd"]
                /\ o.spec.K8sVersion = components["kubernetes"]
      ]_vars

(***************************************************************************)
(* Claims about the cache                                                  *)
(***************************************************************************)
ReadOps ==
    {"readEncryptionSecret", "readAzureConfig", "readCluster", "readAzureCluster",
     "readMachinePools", "readAzureMachinePools"}

\* The type of the object each read step fetches.
FetchedBy(op) ==
    IF op = "readEncryptionSecret" THEN "Secret"
    ELSE IF op = "readAzureConfig" THEN "AzureConfig"
    ELSE IF op = "readCluster" THEN "Cluster"
    ELSE IF op = "readAzureCluster" THEN "AzureCluster"
    ELSE IF op = "readMachinePools" THEN "MachinePoolList"
    ELSE "AzureMachinePoolList"

\* C17 (as stated): a read step that succeeds leaves in the cache, as they
\* were, the entries the other read steps put there, and has an entry of its
\* own afterwards; so when all six have succeeded, in any order, the cache
\* holds six entries, one per step.
C17_NoOverwrite ==
    [][\A op \in ReadOps :
         (last'.op = op /\ last'.err = NilErr) =>
            /\ \A k \in DOMAIN crs :
                  crs[k].type # FetchedBy(op) => (k \in DOMAIN crs' /\ crs'[k] = crs[k])
            /\ \E k \in DOMAIN crs' : crs'[k].type = FetchedBy(op)
      ]_vars

\* C15: no write step, whether it succeeds, fails or aborts, adds, removes
\* or replaces a cache entry, and no read step changes the store.
C15_CacheWrittenByReadsOnly ==
    [][/\ \A op \in WriteOps : last'.op = op => crs' = crs
       /\ \A op \in ReadOps : last'.op = op => store' = store
      ]_vars

\* C15 witness: the control-plane step has just created its object from the
\* cached AzureCluster, and the cache holds what the read steps put there.
C15_Witness ==
    /\ last.op = "createKubeadmControlPlane"
    /\ last.err = NilErr
    /\ HasKey(store, KCPKey)
    /\ ObjAt(store, KCPKey).spec.ClusterID = clusterID
    /\ CachedAzureCluster
    /\ {"AzureConfig", "Cluster", "MachinePoolList"} \subseteq DOMAIN crs

====
